---------------------------- MODULE Spec2Model ----------------------------
(***************************************************************************)
(* ViharaYatra server (src/server/index.js): registration, login, the     *)
(* JWT access-control middleware, groups, group messages and the          *)
(* socket.io rooms the messages are broadcast to.                          *)
(*                                                                         *)
(* A request handler is an async function: it runs synchronously up to an *)
(* await on the store and is resumed later, so other handlers and socket  *)
(* events interleave at the awaits.  Each action below is one such        *)
(* uninterrupted piece of a handler together with the store operation it  *)
(* waits for.                                                              *)
(***************************************************************************)
EXTENDS Integers, Sequences, FiniteSets, TLC

VARIABLES
  users,    \* collection "users": sequence of documents, _id = position
  groups,   \* collection "groups": sequence of documents, _id = position
  now,      \* wall clock, in seconds (the unit of a token's iat and exp)
  ticks,    \* number of clock advances so far
  reqs,     \* requests suspended at an await, one per slot
  resp,     \* the request that was answered (or abandoned) last
  issued,   \* tokens that login has handed to clients
  conn,     \* socket -> "new" | "open" | "closed"
  rooms,    \* socket -> set of rooms (group ids) the socket is in
  joinAt,   \* history: what was stored and emitted when a socket joined a room
  inbox,    \* socket -> the newMessage events the socket has received
  emitted,  \* history: the newMessage events, in emission order
  nsent     \* history: number of messages built so far (labels them)

vars == <<users, groups, now, ticks, reqs, resp, issued, conn, rooms, joinAt,
          inbox, emitted, nsent>>

(***************************************************************************)
(* Bounds of the model.                                                    *)
(***************************************************************************)
MaxUsers    == 2   \* documents in "users"
MaxGroups   == 2   \* documents in "groups"
MaxMsgs     == 2   \* messages built over a run
MaxTokens   == 2   \* tokens issued over a run
MaxTicks    == 2   \* clock advances over a run
MaxInFlight == 2   \* requests suspended at an await at the same time
NumSalts    == 1   \* distinct salts bcrypt may draw
NumSockets  == 1   \* socket connections over a run

(***************************************************************************)
(* Program constants.                                                      *)
(***************************************************************************)
ExpiresIn == 3600  \* expiresIn: "1h", in seconds

Slots   == 1..MaxInFlight
Sockets == 1..NumSockets

(***************************************************************************)
(* Values of request fields.  Undefined is JavaScript's undefined for a   *)
(* body field the client did not send.                                    *)
(***************************************************************************)
Undefined == "<undefined>"

Emails    == {"A@x.com", "a@x.com", "b@x.com"}
Passwords == {"p", "q"}
Names     == {"A"}
Texts     == {"hi"}

\* String.prototype.toLowerCase on the e-mail strings of the model
ToLowerCase(s) ==
  CASE s = "A@x.com" -> "a@x.com"
    [] s = "B@x.com" -> "b@x.com"
    [] OTHER         -> s

(***************************************************************************)
(* bcryptjs.  A digest carries its salt and stands for the plaintext it   *)
(* was made from without being equal to it.                               *)
(***************************************************************************)
Salts == 1..NumSalts

bcryptHash(password, salt) == [salt |-> salt, of |-> password]

\* a comparison that accepts any password
bcryptCompare_Always(password, digest) == digest.of = digest.of

bcryptCompare(password, digest) == digest.of = password

(***************************************************************************)
(* The Authorization header is a string: a sequence of symbols, each a    *)
(* space, a plain word or a JSON web token.  A token carries its claims   *)
(* and whether its signature was made with the server's JWT_SECRET.       *)
(***************************************************************************)
SP == [t |-> "sp"]
Word(s) == [t |-> "w", s |-> s]

NoHeader == [set |-> FALSE, val |-> <<>>]
Header(str) == [set |-> TRUE, val |-> str]

\* jwt.sign(payload, JWT_SECRET, { expiresIn: "1h" }) at time t
jwtSign(payload, t) ==
  [t |-> "jwt", userId |-> payload.userId, email |-> payload.email,
   iat |-> t, exp |-> t + ExpiresIn, sig |-> "good"]

\* the same token with a signature that JWT_SECRET does not verify
Tamper(tok) == [tok EXCEPT !.sig = "bad"]

NoUser == [userId |-> 0, email |-> Undefined, iat |-> 0, exp |-> 0]

\* a verification that does not look at exp
jwtVerify_NoExpiry(str, t) ==
  IF /\ Len(str) = 1
     /\ str[1].t = "jwt"
     /\ str[1].sig = "good"
  THEN [err |-> FALSE,
        decoded |-> [userId |-> str[1].userId, email |-> str[1].email,
                     iat |-> str[1].iat, exp |-> str[1].exp]]
  ELSE [err |-> TRUE, decoded |-> NoUser]

\* jwt.verify(token, JWT_SECRET, cb) at time t: err, or the decoded payload
jwtVerify(str, t) ==
  IF /\ Len(str) = 1
     /\ str[1].t = "jwt"
     /\ str[1].sig = "good"
     /\ t < str[1].exp
  THEN [err |-> FALSE,
        decoded |-> [userId |-> str[1].userId, email |-> str[1].email,
                     iat |-> str[1].iat, exp |-> str[1].exp]]
  ELSE [err |-> TRUE, decoded |-> NoUser]

\* String.prototype.split(" ")
RECURSIVE Split(_)
Split(str) ==
  IF \E i \in 1..Len(str) : str[i] = SP
  THEN LET i == CHOOSE k \in 1..Len(str) :
                  /\ str[k] = SP
                  /\ \A j \in 1..(k - 1) : str[j] # SP
       IN  <<SubSeq(str, 1, i - 1)>> \o Split(SubSeq(str, i + 1, Len(str)))
  ELSE <<str>>

\* req.headers.authorization?.split(" ")[1]
ExtractToken(hdr) ==
  IF hdr.set /\ Len(Split(hdr.val)) >= 2
  THEN [def |-> TRUE, str |-> Split(hdr.val)[2]]
  ELSE [def |-> FALSE, str |-> <<>>]

\* !token is false
Truthy(token) == token.def /\ token.str # <<>>

\* authenticateUser without the return on err: next() is reached with the
\* payload of a token that did not verify
authenticateUser_IgnoresErr(hdr, t) ==
  LET token == ExtractToken(hdr) IN
  IF ~Truthy(token)
  THEN [status |-> 401, user |-> NoUser, next |-> FALSE]
  ELSE [status |-> 0, user |-> jwtVerify(token.str, t).decoded, next |-> TRUE]

(***************************************************************************)
(* authenticateUser: the status it answers with (0: none), req.user, and  *)
(* whether it called next().                                               *)
(***************************************************************************)
authenticateUser(hdr, t) ==
  LET token == ExtractToken(hdr) IN
  IF ~Truthy(token)
  THEN [status |-> 401, user |-> NoUser, next |-> FALSE]
  ELSE LET v == jwtVerify(token.str, t) IN
       IF v.err
       THEN [status |-> 403, user |-> NoUser, next |-> FALSE]
       ELSE [status |-> 0, user |-> v.decoded, next |-> TRUE]

(***************************************************************************)
(* Requests.                                                               *)
(***************************************************************************)
NoBody == [name |-> Undefined, email |-> Undefined, password |-> Undefined,
           text |-> Undefined]

NoLoc == [email |-> Undefined, hash |-> <<>>, group |-> <<>>, message |-> <<>>]

NoOut == [token |-> <<>>, groups |-> <<>>, user |-> <<>>, data |-> <<>>]

NoId == -1   \* the route has no :id
BadId == 0   \* an :id that is not an ObjectId

\* touched and writes are history: whether the route handler ran, and how
\* many writes to the store the request has made
Request(kind, hdr, body, id) ==
  [kind |-> kind, hdr |-> hdr, body |-> body, id |-> id, at |-> now,
   pc |-> "start", status |-> 0, error |-> "", nresp |-> 0, user |-> NoUser,
   loc |-> NoLoc, out |-> NoOut, touched |-> FALSE, writes |-> 0]

Idle ==
  [Request("none", NoHeader, NoBody, NoId) EXCEPT !.pc = "idle", !.at = 0]

\* res.status(status).json(...): the handler returns after it
Respond(r, status, error, out) ==
  [r EXCEPT !.pc = "done", !.status = status, !.error = error,
            !.nresp = r.nresp + 1, !.out = out]

\* the handler's promise rejects outside any try block: the request is left
\* without a response
Abandon(r) == [r EXCEPT !.pc = "done"]

\* authenticateUser answers and the route handler is not called
Reject(r, a) ==
  Respond(r, a.status,
          IF a.status = 401 THEN "Unauthorized. No token provided."
                            ELSE "Invalid or expired token",
          NoOut)

FreeSlot == CHOOSE s \in Slots :
              /\ reqs[s].pc = "idle"
              /\ \A u \in Slots : reqs[u].pc = "idle" => s <= u

HasFreeSlot == \E s \in Slots : reqs[s].pc = "idle"

(***************************************************************************)
(* The store.                                                              *)
(***************************************************************************)
UserIds == 1..Len(users)
GroupIds == 1..Len(groups)

\* User.findOne({ email }): the _id of the document, 0 for null
UserFindOne(email) ==
  IF \E i \in UserIds : users[i].email = email
  THEN CHOOSE i \in UserIds : users[i].email = email
  ELSE 0

\* validation of a new User: name, email and password are required
UserValid(doc) ==
  /\ doc.name # Undefined
  /\ doc.email # Undefined
  /\ doc.password # <<>>

\* a collection without the unique index
UserUnique_NoIndex(doc) == TRUE

\* the unique index on users.email rejects a second document with the e-mail
UserUnique(doc) == \A i \in UserIds : users[i].email # doc.email

\* a find without the filter
GroupFind_All(email) == groups

\* Group.find({ members: email }): the documents whose members contain email
GroupFind(email) ==
  SelectSeq(groups,
            LAMBDA g : \E i \in 1..Len(g.members) : g.members[i] = email)

\* a group created without its creator among the members
NewGroup_NoMembers(name, user) ==
  [id |-> Len(groups) + 1, name |-> name, members |-> <<>>, messages |-> <<>>]

\* new Group({ name, members: [req.user.email], messages: [] })
NewGroup(name, user) ==
  [id |-> Len(groups) + 1, name |-> name, members |-> <<user.email>>,
   messages |-> <<>>]

\* a message whose sender is read from the request body
NewMessage_BodySender(user, text, t, mid) ==
  [sender |-> text, text |-> text, timestamp |-> t, mid |-> mid]

\* { sender: req.user.email, text, timestamp: new Date() }; mid labels the
\* message
NewMessage(user, text, t, mid) ==
  [sender |-> user.email, text |-> text, timestamp |-> t, mid |-> mid]

\* a save that writes the whole loaded document back
GroupSave_Overwrite(doc) == [groups EXCEPT ![doc.id] = doc]

\* group.save() of a loaded document after messages.push(message): an atomic
\* $push of the pushed message on the stored document
GroupSave(doc) ==
  [groups EXCEPT ![doc.id].messages =
     Append(groups[doc.id].messages, doc.messages[Len(doc.messages)])]

\* every message emitted to one and the same room
RoomOf_First(doc) == 1

\* group._id.toString(): the room a group's messages are emitted to
RoomOf(doc) == doc.id

\* rooms a client can name in joinGroup
Rooms == 1..MaxGroups

NeverJoined == [stored |-> -1, emitted |-> -1]

Init ==
  /\ users = <<>>
  /\ groups = <<>>
  /\ now = 0
  /\ ticks = 0
  /\ reqs = [s \in Slots |-> Idle]
  /\ resp = Idle
  /\ issued = {}
  /\ conn = [s \in Sockets |-> "new"]
  /\ rooms = [s \in Sockets |-> {}]
  /\ joinAt = [s \in Sockets |-> [g \in Rooms |-> NeverJoined]]
  /\ inbox = [s \in Sockets |-> <<>>]
  /\ emitted = <<>>
  /\ nsent = 0

(***************************************************************************)
(* The clock.                                                              *)
(***************************************************************************)
Tick(steps) ==
  /\ ticks < MaxTicks
  /\ \E d \in steps : now' = now + d
  /\ ticks' = ticks + 1
  /\ UNCHANGED <<users, groups, reqs, resp, issued, conn, rooms, joinAt,
                 inbox, emitted, nsent>>

(***************************************************************************)
(* POST /api/auth/register                                                 *)
(***************************************************************************)
RegisterBodies(names, emails, passwords) ==
  {[NoBody EXCEPT !.name = n, !.email = e, !.password = p] :
     n \in names, e \in emails, p \in passwords}

\* the request arrives; the handler runs to User.findOne and, resumed with
\* its result, to bcrypt.hash and newUser.save()
RegisterFind(bodies, salts) ==
  \E body \in bodies, salt \in salts :
    LET r == Request("register", NoHeader, body, NoId) IN
    /\ UNCHANGED <<users, groups, now, ticks, issued, conn, rooms, joinAt,
                   inbox, emitted, nsent>>
    /\ IF body.email = Undefined
       THEN \* email.toLowerCase() throws inside the try block
            /\ resp' = Respond(r, 500, "Error registering user", NoOut)
            /\ UNCHANGED reqs
       ELSE LET email == ToLowerCase(body.email) IN
            IF UserFindOne(email) # 0
            THEN /\ resp' = Respond([r EXCEPT !.touched = TRUE], 400,
                                    "Email already in use", NoOut)
                 /\ UNCHANGED reqs
            ELSE IF body.password = Undefined
            THEN \* bcrypt.hash(undefined, 10) rejects
                 /\ resp' = Respond([r EXCEPT !.touched = TRUE], 500,
                                    "Error registering user", NoOut)
                 /\ UNCHANGED reqs
            ELSE /\ HasFreeSlot
                 /\ reqs' = [reqs EXCEPT ![FreeSlot] =
                      [r EXCEPT !.pc = "save", !.touched = TRUE,
                                !.loc.email = email,
                                !.loc.hash =
                                   <<bcryptHash(body.password, salt)>>]]
                 /\ UNCHANGED resp

\* newUser.save() is carried out, and the handler answers
RegisterSave ==
  \E s \in Slots :
    LET r == reqs[s]
        newUser == [name |-> r.body.name, email |-> r.loc.email,
                    password |-> r.loc.hash]
    IN
    /\ r.kind = "register" /\ r.pc = "save"
    /\ reqs' = [reqs EXCEPT ![s] = Idle]
    /\ UNCHANGED <<groups, now, ticks, issued, conn, rooms, joinAt, inbox,
                   emitted, nsent>>
    /\ IF UserValid(newUser) /\ UserUnique(newUser)
       THEN /\ Len(users) < MaxUsers
            /\ users' = Append(users, newUser)
            /\ resp' = Respond([r EXCEPT !.writes = @ + 1], 201, "", NoOut)
       ELSE /\ resp' = Respond(r, 500, "Error registering user", NoOut)
            /\ UNCHANGED users

(***************************************************************************)
(* POST /api/auth/login                                                    *)
(***************************************************************************)
LoginBodies(emails, passwords) ==
  {[NoBody EXCEPT !.email = e, !.password = p] : e \in emails, p \in passwords}

LoginFind(bodies) ==
  \E body \in bodies :
    LET r == Request("login", NoHeader, body, NoId) IN
    /\ UNCHANGED <<users, groups, now, ticks, reqs, conn, rooms, joinAt,
                   inbox, emitted, nsent>>
    /\ IF body.email = Undefined
       THEN \* email.toLowerCase() throws before the try block: the handler's
            \* promise rejects; Express 4 drops the rejection, Express 5
            \* hands it to its error handler
            /\ \/ resp' = Abandon(r)
               \/ resp' = Respond(r, 500, "Internal Server Error", NoOut)
            /\ UNCHANGED issued
       ELSE LET email == ToLowerCase(body.email)
                id == UserFindOne(email)
                q == [r EXCEPT !.touched = TRUE]
            IN
            IF id = 0
            THEN /\ resp' = Respond(q, 400, "User not found", NoOut)
                 /\ UNCHANGED issued
            ELSE IF body.password = Undefined
            THEN \* bcrypt.compare(undefined, digest) rejects
                 /\ resp' = Respond(q, 500, "Server error during login", NoOut)
                 /\ UNCHANGED issued
            ELSE IF ~bcryptCompare(body.password, users[id].password[1])
            THEN /\ resp' = Respond(q, 400, "Invalid password", NoOut)
                 /\ UNCHANGED issued
            ELSE LET token == jwtSign([userId |-> id,
                                       email |-> users[id].email], now)
                 IN
                 /\ token \in issued \/ Cardinality(issued) < MaxTokens
                 /\ issued' = issued \cup {token}
                 /\ resp' = Respond(q, 200, "",
                                    [NoOut EXCEPT !.token = <<token>>])

(***************************************************************************)
(* Authorization headers a client may send.                                *)
(***************************************************************************)
Forged == Tamper(jwtSign([userId |-> 1, email |-> "a@x.com"], 0))

\* the header the API documents, with a token that login returned
BearerHeaders == {Header(<<Word("Bearer"), SP, tok>>) : tok \in issued}

TokenWords ==
  issued \cup {Tamper(tok) : tok \in issued} \cup {Forged, Word("abc")}

AnyHeaders ==
  {NoHeader, Header(<<Word("abc")>>), Header(<<Word("Bearer")>>),
   Header(<<Word("Bearer"), SP>>)}
  \cup {Header(<<Word(scheme), SP, tok>>) :
          scheme \in {"Bearer", "Basic"}, tok \in TokenWords}
  \cup {Header(<<Word("Bearer"), SP, SP, tok>>) : tok \in TokenWords}

(***************************************************************************)
(* GET /api/auth/user                                                      *)
(***************************************************************************)
GetUser(hdrs) ==
  \E hdr \in hdrs :
    LET r == Request("getUser", hdr, NoBody, NoId)
        a == authenticateUser(hdr, now)
        q == [r EXCEPT !.user = a.user, !.touched = TRUE]
    IN
    /\ UNCHANGED <<users, groups, now, ticks, reqs, issued, conn, rooms,
                   joinAt, inbox, emitted, nsent>>
    /\ IF ~a.next
       THEN resp' = Reject(r, a)
       ELSE IF a.user.userId \notin UserIds
       THEN resp' = Respond(q, 404, "User not found", NoOut)
       ELSE LET u == users[a.user.userId] IN
            resp' = Respond(q, 200, "",
                      [NoOut EXCEPT !.user = <<[id |-> a.user.userId,
                                                name |-> u.name,
                                                email |-> u.email]>>])

(***************************************************************************)
(* POST /api/groups                                                        *)
(***************************************************************************)
CreateGroup(hdrs, names) ==
  \E hdr \in hdrs, name \in names :
    LET r == Request("createGroup", hdr, [NoBody EXCEPT !.name = name], NoId)
        a == authenticateUser(hdr, now)
        q == [r EXCEPT !.user = a.user, !.touched = TRUE]
        group == NewGroup(name, a.user)
    IN
    /\ UNCHANGED <<users, now, ticks, reqs, issued, conn, rooms, joinAt,
                   inbox, emitted, nsent>>
    /\ IF ~a.next
       THEN /\ resp' = Reject(r, a)
            /\ UNCHANGED groups
       ELSE /\ Len(groups) < MaxGroups
            /\ groups' = Append(groups, group)
            /\ resp' = Respond([q EXCEPT !.writes = @ + 1], 201, "",
                               [NoOut EXCEPT !.groups = <<group>>])

(***************************************************************************)
(* GET /api/groups                                                         *)
(***************************************************************************)
GetGroups(hdrs) ==
  \E hdr \in hdrs :
    LET r == Request("getGroups", hdr, NoBody, NoId)
        a == authenticateUser(hdr, now)
        q == [r EXCEPT !.user = a.user, !.touched = TRUE]
    IN
    /\ UNCHANGED <<users, groups, now, ticks, reqs, issued, conn, rooms,
                   joinAt, inbox, emitted, nsent>>
    /\ IF ~a.next
       THEN resp' = Reject(r, a)
       ELSE resp' = Respond(q, 200, "",
                      [NoOut EXCEPT !.groups = GroupFind(a.user.email)])

(***************************************************************************)
(* POST /api/groups/:id/message                                            *)
(***************************************************************************)
\* the request arrives; the handler runs to Group.findById and, resumed with
\* its result, to group.save()
SendLoad(hdrs, ids, texts) ==
  \E hdr \in hdrs, id \in ids, text \in texts :
    LET r == Request("sendMessage", hdr, [NoBody EXCEPT !.text = text], id)
        a == authenticateUser(hdr, now)
        q == [r EXCEPT !.user = a.user, !.touched = TRUE]
        message == NewMessage(a.user, text, now, nsent + 1)
    IN
    /\ UNCHANGED <<users, groups, now, ticks, issued, conn, rooms, joinAt,
                   inbox, emitted>>
    /\ IF ~a.next
       THEN /\ resp' = Reject(r, a)
            /\ UNCHANGED <<reqs, nsent>>
       ELSE IF id = BadId
       THEN \* findById rejects with a CastError
            /\ resp' = Respond(q, 500, "Error sending message", NoOut)
            /\ UNCHANGED <<reqs, nsent>>
       ELSE IF id \notin GroupIds
       THEN /\ resp' = Respond(q, 404, "Group not found", NoOut)
            /\ UNCHANGED <<reqs, nsent>>
       ELSE /\ HasFreeSlot
            /\ nsent < MaxMsgs
            /\ nsent' = nsent + 1
            /\ reqs' = [reqs EXCEPT ![FreeSlot] =
                 [q EXCEPT !.pc = "save",
                           !.loc.group = <<[groups[id] EXCEPT !.messages =
                                              Append(@, message)]>>,
                           !.loc.message = <<message>>]]
            /\ UNCHANGED resp

\* group.save() is carried out
SendSave ==
  \E s \in Slots :
    LET r == reqs[s] IN
    /\ r.kind = "sendMessage" /\ r.pc = "save"
    /\ groups' = GroupSave(r.loc.group[1])
    /\ reqs' = [reqs EXCEPT ![s].pc = "emit", ![s].writes = @ + 1]
    /\ UNCHANGED <<users, now, ticks, resp, issued, conn, rooms, joinAt,
                   inbox, emitted, nsent>>

\* an emit to every connected socket instead of the room
InRoom_Everyone(room) == {s \in Sockets : conn[s] = "open"}

\* the sockets that io.to(room) reaches
InRoom(room) == {s \in Sockets : conn[s] = "open" /\ room \in rooms[s]}

\* the emit throws after the save: the catch block answers 500
SendEmit_Throws ==
  \E s \in Slots :
    LET r == reqs[s] IN
    /\ r.kind = "sendMessage" /\ r.pc = "emit"
    /\ resp' = Respond(r, 500, "Error sending message", NoOut)
    /\ reqs' = [reqs EXCEPT ![s] = Idle]
    /\ UNCHANGED <<users, groups, now, ticks, issued, conn, rooms, joinAt,
                   inbox, emitted, nsent>>

\* the handler is resumed after the save: it emits newMessage and answers
SendEmit ==
  \E s \in Slots :
    LET r == reqs[s]
        room == RoomOf(r.loc.group[1])
        event == [room |-> room, message |-> r.loc.message[1]]
    IN
    /\ r.kind = "sendMessage" /\ r.pc = "emit"
    /\ emitted' = Append(emitted, event)
    /\ inbox' = [k \in Sockets |->
                   IF k \in InRoom(room) THEN Append(inbox[k], event)
                                         ELSE inbox[k]]
    /\ resp' = Respond(r, 200, "", [NoOut EXCEPT !.data = r.loc.message])
    /\ reqs' = [reqs EXCEPT ![s] = Idle]
    /\ UNCHANGED <<users, groups, now, ticks, issued, conn, rooms, joinAt,
                   nsent>>

(***************************************************************************)
(* socket.io                                                               *)
(***************************************************************************)
Connect ==
  \E s \in Sockets :
    /\ conn[s] = "new"
    /\ conn' = [conn EXCEPT ![s] = "open"]
    /\ UNCHANGED <<users, groups, now, ticks, reqs, resp, issued, rooms,
                   joinAt, inbox, emitted, nsent>>

\* socket.on("joinGroup"): socket.join(groupId)
JoinGroup(names) ==
  \E s \in Sockets, g \in names :
    /\ conn[s] = "open"
    /\ g \notin rooms[s]
    /\ rooms' = [rooms EXCEPT ![s] = @ \cup {g}]
    /\ joinAt' = [joinAt EXCEPT ![s][g] =
         [stored |-> IF g \in GroupIds THEN Len(groups[g].messages) ELSE 0,
          emitted |-> Len(emitted)]]
    /\ UNCHANGED <<users, groups, now, ticks, reqs, resp, issued, conn, inbox,
                   emitted, nsent>>

\* socket.on("disconnect"): the socket has left its rooms and is gone, and
\* with it what it joined and received
Disconnect ==
  \E s \in Sockets :
    /\ conn[s] = "open"
    /\ conn' = [conn EXCEPT ![s] = "closed"]
    /\ rooms' = [rooms EXCEPT ![s] = {}]
    /\ joinAt' = [joinAt EXCEPT ![s] = [g \in Rooms |-> NeverJoined]]
    /\ inbox' = [inbox EXCEPT ![s] = <<>>]
    /\ UNCHANGED <<users, groups, now, ticks, reqs, resp, issued, emitted,
                   nsent>>

(***************************************************************************)
(* The response leaves the server.  resp is only observed, no handler     *)
(* reads it; the server takes its next step once the response is out.     *)
(***************************************************************************)
Sent ==
  /\ resp # Idle
  /\ resp' = Idle
  /\ UNCHANGED <<users, groups, now, ticks, reqs, issued, conn, rooms, joinAt,
                 inbox, emitted, nsent>>

Quiet == resp = Idle

\* no request is suspended at an await
NoneInFlight == \A s \in Slots : reqs[s] = Idle

(***************************************************************************)
(* Specifications.  Each one lets clients send a part of the requests the *)
(* server accepts, so that the cases a property is about are reached      *)
(* within the bounds.                                                      *)
(***************************************************************************)
OneRegister == RegisterBodies(Names, {"A@x.com"}, {"p"})
OneLogin == LoginBodies({"a@x.com"}, {"p"})
TwoRegisters == RegisterBodies(Names, {"A@x.com", "b@x.com"}, {"p"})
TwoLogins == LoginBodies({"A@x.com", "b@x.com"}, {"p"})
AnyIds == {BadId, 1, MaxGroups + 1}

\* registration and login with any body, fields missing or not; requests
\* overlap
NextAccounts ==
  \/ Sent
  \/ Quiet /\ RegisterFind(RegisterBodies(Names \cup {Undefined},
                                          {"A@x.com", "a@x.com", Undefined},
                                          {"p", Undefined}),
                          Salts)
  \/ Quiet /\ RegisterSave
  \/ Quiet /\ LoginFind(LoginBodies({"A@x.com", "a@x.com", Undefined},
                                    Passwords \cup {Undefined}))

SpecAccounts == Init /\ [][NextAccounts]_vars

\* the protected routes with any Authorization header, one request at a
\* time, while hours pass
NextAuth ==
  \/ Sent
  \/ Quiet /\ Tick({ExpiresIn})
  \/ Quiet /\ NoneInFlight /\ RegisterFind(OneRegister, {1})
  \/ Quiet /\ RegisterSave
  \/ Quiet /\ LoginFind(OneLogin)
  \/ Quiet /\ GetUser(AnyHeaders)
  \/ Quiet /\ CreateGroup(AnyHeaders, Names)
  \/ Quiet /\ GetGroups(AnyHeaders)
  \/ Quiet /\ NoneInFlight /\ SendLoad(AnyHeaders, AnyIds, Texts)
  \/ Quiet /\ SendSave
  \/ Quiet /\ SendEmit

SpecAuth == Init /\ [][NextAuth]_vars

\* tokens presented around the end of their hour
NextTime ==
  \/ Sent
  \/ Quiet /\ Tick({1, ExpiresIn - 1, ExpiresIn + 1})
  \/ Quiet /\ NoneInFlight /\ RegisterFind(OneRegister, {1})
  \/ Quiet /\ RegisterSave
  \/ Quiet /\ LoginFind(OneLogin)
  \/ Quiet /\ GetUser(BearerHeaders)
  \/ Quiet /\ GetGroups(BearerHeaders)

SpecTime == Init /\ [][NextTime]_vars

\* two users, their groups and messages, one request at a time
NextGroups ==
  \/ Sent
  \/ Quiet /\ NoneInFlight /\ RegisterFind(TwoRegisters, {1})
  \/ Quiet /\ RegisterSave
  \/ Quiet /\ LoginFind(TwoLogins)
  \/ Quiet /\ CreateGroup(BearerHeaders, Names)
  \/ Quiet /\ GetGroups(BearerHeaders)
  \/ Quiet /\ NoneInFlight /\ SendLoad(BearerHeaders, GroupIds, Texts)
  \/ Quiet /\ SendSave
  \/ Quiet /\ SendEmit

SpecGroups == Init /\ [][NextGroups]_vars

\* sockets join the room of a group, or another room, while messages are
\* sent to the group; the sends overlap
NextRooms ==
  \/ Sent
  \/ Quiet /\ NoneInFlight /\ RegisterFind(OneRegister, {1})
  \/ Quiet /\ RegisterSave
  \/ Quiet /\ LoginFind(OneLogin)
  \/ Quiet /\ groups = <<>> /\ CreateGroup(BearerHeaders, Names)
  \/ Quiet /\ SendLoad(BearerHeaders, GroupIds, Texts)
  \/ Quiet /\ SendSave
  \/ Quiet /\ SendEmit
  \/ Quiet /\ Connect
  \/ Quiet /\ JoinGroup({1, 2})
  \/ Quiet /\ Disconnect

SpecRooms == Init /\ [][NextRooms]_vars

\* one user, logged in once, sends messages to their groups; the sends
\* overlap and the clock runs while they are in flight
NextSends ==
  \/ Sent
  \/ Quiet /\ ~NoneInFlight /\ Tick({1})
  \/ Quiet /\ NoneInFlight /\ RegisterFind(OneRegister, {1})
  \/ Quiet /\ RegisterSave
  \/ Quiet /\ issued = {} /\ LoginFind(OneLogin)
  \/ Quiet /\ NoneInFlight /\ CreateGroup(BearerHeaders, Names)
  \/ Quiet /\ SendLoad(BearerHeaders, GroupIds, Texts)
  \/ Quiet /\ SendSave
  \/ Quiet /\ SendEmit

SpecSends == Init /\ [][NextSends]_vars

\* headers with no token, a badly signed token or an issued token
SomeHeaders ==
  BearerHeaders \cup {NoHeader, Header(<<Word("Bearer"), SP, Forged>>)}

\* requests that fail and requests that succeed: registrations of one
\* e-mail overlap, logins use a right or a wrong password, the protected
\* routes get any of SomeHeaders and messages go to any id; all of them
\* overlap
NextFailures ==
  \/ Sent
  \/ Quiet /\ RegisterFind(RegisterBodies(Names \cup {Undefined},
                                          {"A@x.com", "a@x.com", Undefined},
                                          {"p"}),
                          {1})
  \/ Quiet /\ RegisterSave
  \/ Quiet /\ LoginFind(LoginBodies({"a@x.com"}, Passwords))
  \/ Quiet /\ CreateGroup(SomeHeaders, Names)
  \/ Quiet /\ SendLoad(SomeHeaders, AnyIds, Texts)
  \/ Quiet /\ SendSave
  \/ Quiet /\ SendEmit

SpecFailures == Init /\ [][NextFailures]_vars

\* every operation of the server
Next ==
  \/ Sent
  \/ Quiet /\ Tick({ExpiresIn})
  \/ Quiet /\ RegisterFind(OneRegister, {1})
  \/ Quiet /\ RegisterSave
  \/ Quiet /\ LoginFind(OneLogin)
  \/ Quiet /\ GetUser(BearerHeaders)
  \/ Quiet /\ CreateGroup(BearerHeaders, Names)
  \/ Quiet /\ GetGroups(BearerHeaders)
  \/ Quiet /\ NoneInFlight /\ SendLoad(BearerHeaders, GroupIds, Texts)
  \/ Quiet /\ SendSave
  \/ Quiet /\ SendEmit
  \/ Quiet /\ Connect
  \/ Quiet /\ JoinGroup(Rooms)
  \/ Quiet /\ Disconnect

Spec == Init /\ [][Next]_vars

(***************************************************************************)
(* Properties.                                                             *)
(***************************************************************************)
Protected == {"getUser", "createGroup", "getGroups", "sendMessage"}

\* the requests the server holds or has just answered
Requests == {resp} \cup {reqs[s] : s \in Slots}

\* the token a request carries: the second of the pieces of its
\* Authorization header that single spaces separate
Carried(hdr) ==
  IF hdr.set /\ Len(Split(hdr.val)) >= 2 THEN Split(hdr.val)[2] ELSE <<>>

\* a token that login issued, presented before its hour is over
ValidToken(str, t) ==
  /\ Len(str) = 1
  /\ str[1] \in issued
  /\ t < str[1].iat + ExpiresIn

AuthOutcome(r) ==
  LET str == Carried(r.hdr) IN
  /\ str = <<>> =>
       /\ r.pc = "done" /\ r.status = 401 /\ r.nresp = 1
       /\ ~r.touched /\ r.user = NoUser
  /\ str # <<>> /\ ~ValidToken(str, r.at) =>
       /\ r.pc = "done" /\ r.status = 403 /\ r.nresp = 1
       /\ ~r.touched /\ r.user = NoUser
  /\ ValidToken(str, r.at) =>
       /\ r.status \notin {401, 403}
       /\ r.touched
       /\ r.user.userId = str[1].userId
       /\ r.user.email = str[1].email

\* a step that writes a group or emits newMessage belongs to a request that
\* carried a valid token when it arrived
WriteIsAuthorized ==
  groups' # groups \/ emitted' # emitted =>
    \/ /\ resp'.kind = "createGroup"
       /\ ValidToken(Carried(resp'.hdr), resp'.at)
    \/ \E s \in Slots :
         /\ reqs[s].kind = "sendMessage"
         /\ reqs'[s] # reqs[s]
         /\ ValidToken(Carried(reqs[s].hdr), reqs[s].at)

\* C1: a request to a protected route ends in exactly one of three outcomes
\* of authenticateUser: no token, 401, the handler does not run; a token
\* that is badly signed or expired, 403, the handler does not run; a valid
\* token, its userId and email become req.user and the handler runs.  No
\* step of a protected handler touches the store or emits for a request
\* that carried no valid unexpired token.
AuthContract ==
  /\ [](\A r \in Requests : r.kind \in Protected => AuthOutcome(r))
  /\ [][WriteIsAuthorized]_vars

\* an issued token is refused with 403 after its hour, the handler not run
AuthContractWitness ==
  /\ resp.pc = "done" /\ resp.kind \in Protected /\ resp.status = 403
  /\ ~resp.touched
  /\ Len(Carried(resp.hdr)) = 1
  /\ Carried(resp.hdr)[1] \in issued
  /\ resp.at >= Carried(resp.hdr)[1].iat + ExpiresIn

\* the header is "Bearer <token>"
BearerScheme(hdr) ==
  /\ hdr.set
  /\ Len(hdr.val) = 3
  /\ hdr.val[1] = Word("Bearer")
  /\ hdr.val[2] = SP
  /\ hdr.val[3] # SP

\* C2: a protected request with no Authorization header, or with one that
\* is not "Bearer <token>", is answered 401, never 403.
MalformedSchemeIs401 ==
  resp.pc = "done" /\ resp.kind \in Protected /\ ~BearerScheme(resp.hdr)
    => resp.status = 401

\* every field the route needs is in the body
HasFields(r) ==
  /\ r.body.email # Undefined
  /\ r.body.password # Undefined
  /\ r.kind = "register" => r.body.name # Undefined

\* the stored user whose e-mail is e in lower case, 0 if there is none
Registered(e) ==
  IF \E i \in UserIds : users[i].email = ToLowerCase(e)
  THEN CHOOSE i \in UserIds : users[i].email = ToLowerCase(e)
  ELSE 0

\* C3: a register request that does not create the record while a stored
\* user has its e-mail in lower case is answered 400 DuplicateEmail and
\* nothing else, however the two requests' steps interleave.
DuplicateEmailIs400 ==
  /\ resp.pc = "done" /\ resp.kind = "register" /\ HasFields(resp)
  /\ resp.status # 201
  /\ Registered(resp.body.email) # 0
  => resp.status = 400 /\ resp.error = "Email already in use"

\* C4: login with a registered e-mail in any letter case and the right
\* password is answered 200 with a token that authenticateUser accepts at
\* once and that carries the user's id and stored lower-case e-mail; with a
\* wrong password it is answered 400 BadPassword and no token.
LoginContract ==
  /\ resp.pc = "done" /\ resp.kind = "login" /\ HasFields(resp)
  /\ Registered(resp.body.email) # 0
  => LET id == Registered(resp.body.email)
         bearer == Header(<<Word("Bearer"), SP>> \o resp.out.token)
     IN
     IF users[id].password[1].of = resp.body.password
     THEN /\ resp.status = 200 /\ resp.nresp = 1
          /\ Len(resp.out.token) = 1
          /\ authenticateUser(bearer, now).next
          /\ authenticateUser(bearer, now).user.userId = id
          /\ authenticateUser(bearer, now).user.email = users[id].email
          /\ users[id].email = ToLowerCase(resp.body.email)
     ELSE /\ resp.status = 400 /\ resp.error = "Invalid password"
          /\ resp.out.token = <<>>

\* a login in upper case gets a token for the user stored in lower case
LoginContractWitness ==
  /\ resp.pc = "done" /\ resp.kind = "login"
  /\ resp.body.email = "A@x.com" /\ resp.body.password = "p"
  /\ resp.status = 200
  /\ Len(resp.out.token) = 1
  /\ resp.out.token[1].email = "a@x.com"
  /\ resp.out.token[1] \in issued

\* C9: register without name, email or password, and login without email
\* or password, are answered 400.
MissingFieldIs400 ==
  resp.pc = "done" /\ resp.kind \in {"register", "login"} /\ ~HasFields(resp)
    => resp.status = 400

\* C10: a request whose handler has finished has received exactly one
\* response.
ExactlyOneResponse == resp.pc = "done" => resp.nresp = 1

\* C5: a token that login issued at time t is accepted at every time before
\* t + 1 hour and refused with 403 at every time after t + 1 hour, whether
\* or not it was used before; its expiry is fixed when it is issued.
TokenLifetime ==
  /\ \A tok \in issued : tok.exp = tok.iat + ExpiresIn
  /\ \A r \in Requests :
       /\ r.kind \in Protected
       /\ Len(Carried(r.hdr)) = 1
       /\ Carried(r.hdr)[1] \in issued
       => LET tok == Carried(r.hdr)[1] IN
          /\ r.at < tok.iat + ExpiresIn =>
               r.status \notin {401, 403} /\ r.touched
          /\ r.at > tok.iat + ExpiresIn =>
               r.pc = "done" /\ r.status = 403 /\ ~r.touched

\* an issued token is refused one second after its hour
TokenLifetimeWitness ==
  /\ resp.pc = "done" /\ resp.kind \in Protected /\ resp.status = 403
  /\ Len(Carried(resp.hdr)) = 1
  /\ Carried(resp.hdr)[1] \in issued
  /\ resp.at = Carried(resp.hdr)[1].iat + ExpiresIn + 1

\* the e-mails in a group's members
Members(g) == {g.members[i] : i \in 1..Len(g.members)}

\* C6: GET /api/groups with a valid token of user U answers exactly the
\* stored groups whose members contain U's e-mail.
GroupsOfCaller ==
  /\ resp.pc = "done" /\ resp.kind = "getGroups"
  /\ ValidToken(Carried(resp.hdr), resp.at)
  => LET email == Carried(resp.hdr)[1].email
         out == resp.out.groups
     IN
     /\ resp.status = 200
     /\ {out[i] : i \in 1..Len(out)} =
          {groups[g] : g \in {h \in GroupIds : email \in Members(groups[h])}}
     /\ \A i, j \in 1..Len(out) : out[i] = out[j] => i = j

\* the caller gets a group of theirs with a message in it while another
\* user's group is stored
GroupsOfCallerWitness ==
  /\ resp.pc = "done" /\ resp.kind = "getGroups" /\ resp.status = 200
  /\ Len(resp.out.groups) = 1
  /\ resp.out.groups[1].messages # <<>>
  /\ \E g \in GroupIds : resp.user.email \notin Members(groups[g])

\* C7: POST /api/groups/:id/message with a valid token and an id that names
\* no stored group is answered 404, emits nothing and changes no group.
NoSuchGroupIs404 ==
  [][/\ resp' # resp /\ resp'.pc = "done" /\ resp'.kind = "sendMessage"
     /\ ValidToken(Carried(resp'.hdr), resp'.at)
     /\ resp'.id \notin GroupIds
     => /\ resp'.status = 404 /\ resp'.error = "Group not found"
        /\ emitted' = emitted
        /\ groups' = groups]_vars

\* position of the message labelled mid in the stored messages of group g,
\* 0 when it is not stored
PosOf(g, mid) ==
  IF g \in GroupIds /\ \E k \in 1..Len(groups[g].messages) :
                         groups[g].messages[k].mid = mid
  THEN CHOOSE k \in 1..Len(groups[g].messages) :
         groups[g].messages[k].mid = mid
  ELSE 0

Joined(s, g) == joinAt[s][g] # NeverJoined

\* every send answered 200 has emitted its message once, to its group's room
EmittedOnce ==
  /\ \A i, j \in 1..Len(emitted) :
       emitted[i].message.mid = emitted[j].message.mid => i = j
  /\ resp.pc = "done" /\ resp.kind = "sendMessage" /\ resp.status = 200 =>
       \E i \in 1..Len(emitted) :
         emitted[i].message = resp.out.data[1] /\ emitted[i].room = resp.id

\* how many times socket s has received the event e
Received(s, e) == Cardinality({k \in 1..Len(inbox[s]) : inbox[s][k] = e})

\* C8 as stated: a socket that joined g receives one newMessage for each
\* append on g after it joined and none for appends before it joined; a
\* socket that never joined g receives none.
ReceivesAppendsAfterJoin ==
  /\ EmittedOnce
  /\ \A s \in Sockets, i \in 1..Len(emitted) :
       LET e == emitted[i] IN
       /\ ~Joined(s, e.room) => Received(s, e) = 0
       /\ Joined(s, e.room) =>
            Received(s, e) =
              IF PosOf(e.room, e.message.mid) > joinAt[s][e.room].stored
              THEN 1 ELSE 0

\* C8 as amended: a socket that joined g and stays connected receives one
\* newMessage for each message of g emitted after it joined, which includes
\* every message appended after it joined, and none for messages emitted
\* before it joined; a socket that never joined g receives none.
ReceivesEmitsAfterJoin ==
  /\ EmittedOnce
  /\ \A s \in Sockets, i \in 1..Len(emitted) :
       LET e == emitted[i] IN
       /\ ~Joined(s, e.room) => Received(s, e) = 0
       /\ Joined(s, e.room) =>
            /\ Received(s, e) = IF i > joinAt[s][e.room].emitted THEN 1 ELSE 0
            /\ PosOf(e.room, e.message.mid) > joinAt[s][e.room].stored =>
                 Received(s, e) = 1
  /\ \A s \in Sockets : \A k \in 1..Len(inbox[s]) :
       \E i \in 1..Len(emitted) : emitted[i] = inbox[s][k]

\* a socket joined between the save and the emit of a message and got it
ReceivesEmitsAfterJoinWitness ==
  \E s \in Sockets, i \in 1..Len(emitted) :
    LET e == emitted[i] IN
    /\ Joined(s, e.room) /\ Received(s, e) = 1
    /\ PosOf(e.room, e.message.mid) >= 1
    /\ PosOf(e.room, e.message.mid) <= joinAt[s][e.room].stored
\* the messages a step appends to the stored group g
Appended(g) ==
  {groups'[g].messages[k] :
     k \in (Len(groups[g].messages) + 1)..Len(groups'[g].messages)}

\* C11: the sender of every message is a member of the group the message
\* is appended to, at the time it is appended.
SendersAreMembers ==
  [][\A g \in GroupIds : \A m \in Appended(g) :
       m.sender \in Members(groups[g])]_vars
\* the answer to a create-group request that carried a valid token: 201 and
\* the stored group, whose only member is the token's e-mail
CreatedForCaller ==
  /\ resp.pc = "done" /\ resp.kind = "createGroup"
  /\ ValidToken(Carried(resp.hdr), resp.at)
  => /\ resp.status = 201 /\ resp.nresp = 1
     /\ Len(resp.out.groups) = 1
     /\ LET group == resp.out.groups[1] IN
        /\ group.members = <<Carried(resp.hdr)[1].email>>
        /\ group.messages = <<>>
        /\ group.name = resp.body.name
        /\ group.id \in GroupIds
        /\ groups[group.id] = group

\* a step stores at most one new group, the one a create-group request is
\* answered with, and leaves the members of the stored groups alone
MembersAreKept ==
  /\ \A g \in GroupIds :
       /\ g <= Len(groups')
       /\ groups'[g].members = groups[g].members
  /\ Len(groups') # Len(groups) =>
       /\ Len(groups') = Len(groups) + 1
       /\ resp'.pc = "done" /\ resp'.kind = "createGroup"
       /\ resp'.status = 201
       /\ ValidToken(Carried(resp'.hdr), resp'.at)
       /\ resp'.out.groups = <<groups'[Len(groups')]>>

\* C12: POST /api/groups with a valid token stores and returns, with 201, a
\* new group whose members are exactly the caller's authenticated e-mail
\* and whose messages are empty; no step adds or removes a member, so each
\* stored group's members are the single e-mail of the user who created it.
SoleMemberIsCreator ==
  /\ [](CreatedForCaller)
  /\ [][MembersAreKept]_vars
  /\ [](\A g \in GroupIds :
          /\ Len(groups[g].members) = 1
          /\ \E u \in UserIds : users[u].email = groups[g].members[1])

\* the second user has just created a group while the group of the first
\* holds a message; each group has its creator as its only member
SoleMemberIsCreatorWitness ==
  /\ resp.pc = "done" /\ resp.kind = "createGroup" /\ resp.status = 201
  /\ Len(groups) = 2
  /\ groups[1].members = <<"a@x.com">>
  /\ groups[1].messages # <<>>
  /\ groups[2].members = <<"b@x.com">>
  /\ resp.out.groups = <<groups[2]>>
\* C13: no two stored users have the same e-mail in lower case, also when
\* two register requests for the e-mail interleave between findOne and save.
EmailsAreUnique ==
  \A i, j \in UserIds :
    ToLowerCase(users[i].email) = ToLowerCase(users[j].email) => i = j

\* a register request found no user with its e-mail, and by the time of its
\* save another request had stored one: the save was refused
EmailsAreUniqueWitness ==
  /\ resp.pc = "done" /\ resp.kind = "register" /\ resp.status = 500
  /\ HasFields(resp)
  /\ resp.loc.email # Undefined
  /\ resp.writes = 0
  /\ \E i \in UserIds : users[i].email = resp.loc.email
  /\ Len(users) = 1
\* the message of the event e is stored in the group of e's room
Stored(e) ==
  /\ PosOf(e.room, e.message.mid) > 0
  /\ groups[e.room].messages[PosOf(e.room, e.message.mid)] = e.message

\* C14: of any two send-message requests to the same group that were both
\* answered 200, however their load, push and save interleaved, both
\* messages are in the group's stored messages: the later save does not
\* overwrite the earlier one's append.
NoLostUpdate ==
  /\ \A i, j \in 1..Len(emitted) :
       i # j /\ emitted[i].room = emitted[j].room =>
         /\ Stored(emitted[i])
         /\ Stored(emitted[j])
         /\ PosOf(emitted[i].room, emitted[i].message.mid) #
              PosOf(emitted[j].room, emitted[j].message.mid)
  /\ resp.pc = "done" /\ resp.kind = "sendMessage" /\ resp.status = 200 =>
       \E i \in 1..Len(emitted) :
         emitted[i] = [room |-> resp.id, message |-> resp.out.data[1]]

\* a request loaded the group while it was empty and saved after another
\* request's save: both messages are stored and both requests answered 200
NoLostUpdateWitness ==
  /\ resp.pc = "done" /\ resp.kind = "sendMessage" /\ resp.status = 200
  /\ Len(resp.loc.group[1].messages) = 1
  /\ Len(groups[resp.id].messages) = 2
  /\ groups[resp.id].messages[2] = resp.out.data[1]
  /\ Len(emitted) = 2
  /\ emitted[1].room = resp.id /\ emitted[2].room = resp.id
\* the timestamps of group g's messages do not decrease along the sequence
Chronological(g) ==
  \A k \in 1..(Len(groups[g].messages) - 1) :
    groups[g].messages[k].timestamp <= groups[g].messages[k + 1].timestamp

\* a step leaves the messages that are stored where and as they are
MessagesAreKept ==
  \A g \in GroupIds :
    /\ Len(groups'[g].messages) >= Len(groups[g].messages)
    /\ \A k \in 1..Len(groups[g].messages) :
         groups'[g].messages[k] = groups[g].messages[k]

\* C15: within each group the stored order of the messages is the append
\* order and the chronological order: timestamps do not decrease along the
\* sequence, also when two handlers interleave between taking the timestamp
\* and completing the save; an appended message is never changed or removed.
StoredOrderIsChronological ==
  /\ [](\A g \in GroupIds : Chronological(g))
  /\ [][MessagesAreKept]_vars
\* C16: the newMessage events of any two successful send-message requests
\* to the same group are emitted in the order in which their appends
\* completed in the store, that is the order of the messages in the group.
EmitOrderIsStoredOrder ==
  \A i, j \in 1..Len(emitted) :
    i < j /\ emitted[i].room = emitted[j].room =>
      PosOf(emitted[i].room, emitted[i].message.mid) <
        PosOf(emitted[j].room, emitted[j].message.mid)
Handlers == {"register", "login", "createGroup", "sendMessage"}

\* the request was answered with a status that is not 2xx
Failed(r) ==
  /\ r.pc = "done" /\ r.nresp >= 1
  /\ r.status < 200 \/ r.status > 299

StoreChanged == users' # users \/ groups' # groups

\* the request that a step answers or abandons, as it was before the step
Before ==
  IF \E s \in Slots : reqs[s] # Idle /\ reqs'[s] = Idle
  THEN reqs[CHOOSE s \in Slots : reqs[s] # Idle /\ reqs'[s] = Idle]
  ELSE Request(resp'.kind, resp'.hdr, resp'.body, resp'.id)

\* writes counts the writes of a request: a step that changes the store is
\* the one write of the request that takes it, and a step that answers with
\* a failure changes neither the store nor what was emitted
OneWritePerRequest ==
  /\ StoreChanged =>
       \/ /\ resp' # resp /\ resp'.pc = "done"
          /\ resp'.writes = Before.writes + 1
          /\ reqs' = reqs \/ \E s \in Slots : reqs' = [reqs EXCEPT ![s] = Idle]
       \/ \E s \in Slots :
            /\ reqs[s] # Idle
            /\ reqs' = [reqs EXCEPT ![s].pc = reqs'[s].pc,
                                    ![s].writes = reqs[s].writes + 1]
            /\ resp' = resp
  /\ ~StoreChanged =>
       /\ \A s \in Slots :
            reqs[s] # Idle /\ reqs'[s] # Idle =>
              reqs'[s].writes = reqs[s].writes
       /\ resp' # resp /\ resp'.pc = "done" => resp'.writes = Before.writes
  /\ resp' # resp /\ Failed(resp') =>
       users' = users /\ groups' = groups /\ emitted' = emitted

\* C17: a handler that fails exposes no partial state: when register,
\* login, create-group or send-message is answered with a status that is
\* not 2xx, the request has written nothing to users or groups and no
\* newMessage was emitted for it; a request makes at most one store write.
FailureLeavesNoTrace ==
  /\ [](\A r \in Requests :
          /\ r.writes <= 1
          /\ r.kind \in Handlers /\ Failed(r) =>
               /\ r.writes = 0
               /\ \A i \in 1..Len(emitted) :
                    <<emitted[i].message>> # r.loc.message)
  /\ [][OneWritePerRequest]_vars

\* a register request that had passed findOne is answered 500 at its save,
\* after a message was stored and emitted; the store holds what the
\* requests that succeeded wrote
FailureLeavesNoTraceWitness ==
  /\ Failed(resp) /\ resp.kind = "register" /\ resp.status = 500
  /\ resp.loc.email # Undefined
  /\ Len(users) = 1
  /\ Len(groups) = 1 /\ Len(groups[1].messages) = 1
  /\ Len(emitted) = 1
\* C18: a newMessage event is emitted only after its message was persisted:
\* every event emitted to room g is an entry of the stored group g's
\* messages, goes to the room named by that group's id and to no other, and
\* a send-message answered 200 has its message stored and emitted.
EmittedIsStored ==
  /\ \A i \in 1..Len(emitted) :
       LET e == emitted[i] IN
       /\ e.room \in GroupIds
       /\ Stored(e)
       /\ e.room = groups[e.room].id
       /\ \A g \in GroupIds \ {e.room} : PosOf(g, e.message.mid) = 0
       /\ \A j \in 1..Len(emitted) :
            emitted[j].message.mid = e.message.mid => emitted[j].room = e.room
  /\ resp.pc = "done" /\ resp.kind = "sendMessage" /\ resp.status = 200 =>
       LET e == [room |-> resp.id, message |-> resp.out.data[1]] IN
       /\ Stored(e)
       /\ \E i \in 1..Len(emitted) : emitted[i] = e

\* a message to the second group is answered 200, stored there and emitted
\* to its room, after a message to the first group
EmittedIsStoredWitness ==
  /\ resp.pc = "done" /\ resp.kind = "sendMessage" /\ resp.status = 200
  /\ resp.id = 2
  /\ Len(groups) = 2
  /\ Len(groups[1].messages) = 1 /\ Len(groups[2].messages) = 1
  /\ Len(emitted) = 2
  /\ emitted[1].room = 1
  /\ emitted[2] = [room |-> 2, message |-> groups[2].messages[1]]
\* the e-mail is the stored, lower-case e-mail of a registered user to whom
\* login has issued a token
LoggedIn(email) ==
  /\ ToLowerCase(email) = email
  /\ \E tok \in issued :
       /\ tok.email = email
       /\ tok.userId \in UserIds
       /\ users[tok.userId].email = email

\* the token the request presented is one that login issued
Presented(r) ==
  /\ Len(Carried(r.hdr)) = 1
  /\ Carried(r.hdr)[1] \in issued

\* a step that stores a group or a message writes the e-mail claim of the
\* token that the request taking the step presented
WritesTokenEmail ==
  /\ Len(groups') > Len(groups) =>
       /\ resp'.kind = "createGroup"
       /\ Presented(resp')
       /\ groups'[Len(groups')].members = <<Carried(resp'.hdr)[1].email>>
  /\ \A g \in GroupIds : \A m \in Appended(g) :
       \E s \in Slots :
         /\ reqs[s].kind = "sendMessage" /\ reqs'[s] # reqs[s]
         /\ reqs[s].id = g
         /\ Presented(reqs[s])
         /\ m.sender = Carried(reqs[s].hdr)[1].email

\* C19: the sender of a stored message and the member of a created group
\* are the authenticated identity, never a value of the request body: each
\* is the e-mail claim of the token presented on the request that wrote it,
\* and so the stored lower-case e-mail of a registered user who logged in.
IdentityIsTokenEmail ==
  /\ [](\A g \in GroupIds :
          /\ \A m \in Members(groups[g]) : LoggedIn(m)
          /\ \A k \in 1..Len(groups[g].messages) :
               LoggedIn(groups[g].messages[k].sender))
  /\ [][WritesTokenEmail]_vars

\* a send with a badly signed token that claims a user's e-mail is refused
\* while the user's own group and message are stored
IdentityIsTokenEmailWitness ==
  /\ resp.pc = "done" /\ resp.kind = "sendMessage" /\ resp.status = 403
  /\ Len(Carried(resp.hdr)) = 1
  /\ Carried(resp.hdr)[1].t = "jwt"
  /\ Carried(resp.hdr)[1] \notin issued
  /\ Len(groups) >= 1
  /\ groups[1].members = <<Carried(resp.hdr)[1].email>>
  /\ Len(groups[1].messages) >= 1
  /\ groups[1].messages[1].sender = Carried(resp.hdr)[1].email
=============================================================================
